---- MODULE Spec2Model ----
(***************************************************************************)
(* Model of custom::library::Result<T, E = Status> (src/lib/result.hpp),   *)
(* the raw-union storage selected by -std=c++14 (the #else branches; the   *)
(* BUILD files compile with -std=c++14).                                   *)
(*                                                                         *)
(* A Result object is a record: has_value_ is the discriminant, value_ and *)
(* error_ are the two members of the anonymous union.  Each member is a    *)
(* slot [live, data]: live says whether an object of the member's type     *)
(* currently has its lifetime running in the storage (placement new makes  *)
(* it live, an explicit destructor call ends it).                          *)
(*                                                                         *)
(* The payload type T is any copy/move-constructible type: its copy and    *)
(* move constructors may throw (the noexcept clauses of the class are      *)
(* conditional on them) and a moved-from T holds a valid but unspecified   *)
(* value.  E is the enum Status, whose operations never throw.             *)
(*                                                                         *)
(* Spec runs the operations of the union build.  SpecReaders runs several  *)
(* threads through the const accessors of one Result.  SpecBoth runs the   *)
(* union build and the std::variant build (-std=c++17, the #if branches)   *)
(* side by side on the same operations.                                    *)
(***************************************************************************)
EXTENDS Integers, FiniteSets, TLC

\* ------------------------------------------------------------------ bounds
NObj == 2
MaxVal == 2
NThreads == 2

\* ------------------------------------------------------- program constants
OK == 0
INVALID_ARG == 1
ERROR == 2
DefaultT == 0

Objs == 1..NObj
\* The operand an operation does not have.
NoObj == NObj + 1
Values == 0..MaxVal
Status == {OK, INVALID_ARG, ERROR}
Threads == 1..NThreads

VARIABLES obj, op, obs, thr, vobj
vars == <<obj, op, obs, thr, vobj>>

\* ------------------------------------------------------- storage of a Result
DeadSlot == [live |-> FALSE, data |-> 0]
LiveSlot(d) == [live |-> TRUE, data |-> d]

\* The storage of a Result that is not constructed (or already destroyed).
NoResult ==
    [alive |-> FALSE, has_value_ |-> FALSE, value_ |-> DeadSlot, error_ |-> DeadSlot]

\* Reading a union member: its data when an object is live there, otherwise
\* (a read outside the lifetime, undefined behaviour) any bit pattern g.
ReadSlot(s, g) == IF s.live THEN s.data ELSE g

\* ----------------------------------------------------------------- accessors
hasValue(r) == r.has_value_

operatorBool(r) == hasValue(r)

\* getValue(): throws "No value" unless hasValue(), otherwise returns value_.
getValue(r, g) ==
    IF ~hasValue(r)
    THEN [outcome |-> "no_value", data |-> 0, live |-> FALSE]
    ELSE [outcome |-> "ok", data |-> ReadSlot(r.value_, g), live |-> r.value_.live]

\* getError(): throws "No error" if hasValue(), otherwise returns error_.
getError(r, g) ==
    IF hasValue(r)
    THEN [outcome |-> "no_error", data |-> 0, live |-> FALSE]
    ELSE [outcome |-> "ok", data |-> ReadSlot(r.error_, g), live |-> r.error_.live]

\* destruct() that tests the discriminant the wrong way round.
destruct_WrongMember(r) ==
    IF r.has_value_
    THEN [r EXCEPT !.error_ = DeadSlot]
    ELSE [r EXCEPT !.value_ = DeadSlot]

\* ---------------------------------------------------------------- destruct()
\* Ends the lifetime of the member the discriminant names.
destruct(r) ==
    IF r.has_value_
    THEN [r EXCEPT !.value_ = DeadSlot]
    ELSE [r EXCEPT !.error_ = DeadSlot]

\* The member destruct() is about to destroy is not live: a destructor call on
\* storage that holds no object.
destructsDead(r) == IF r.has_value_ THEN ~r.value_.live ELSE ~r.error_.live

\* -------------------------------------------------------------- constructors
\* Result() that sets has_value_ and never runs the placement new.
ResultDefault_NoPlacementNew ==
    [alive |-> TRUE, has_value_ |-> TRUE, value_ |-> DeadSlot, error_ |-> DeadSlot]

\* Result(): has_value_(true), new (&value_) T().
ResultDefault ==
    [alive |-> TRUE, has_value_ |-> TRUE, value_ |-> LiveSlot(DefaultT), error_ |-> DeadSlot]

\* Result(U&&) that initialises has_value_(false).
ResultFromValue_WrongFlag(v) ==
    [alive |-> TRUE, has_value_ |-> FALSE, value_ |-> LiveSlot(v), error_ |-> DeadSlot]

\* Result(U&& other): has_value_(true), new (&value_) T(std::forward<U>(other)).
ResultFromValue(v) ==
    [alive |-> TRUE, has_value_ |-> TRUE, value_ |-> LiveSlot(v), error_ |-> DeadSlot]

\* Result(E&& error): has_value_(false), new (&error_) E(std::forward<U>(error)).
ResultFromError(c) ==
    [alive |-> TRUE, has_value_ |-> FALSE, value_ |-> DeadSlot, error_ |-> LiveSlot(c)]

\* ErrorCreate<E>: the tag object holding error_.
ErrorCreate(c) == [error_ |-> c]

\* getError() that yields a value-initialised E instead of error_.
ErrorCreate_getError_Defaulted(ec) == OK

ErrorCreate_getError(ec) == ec.error_

\* createError(E&& error): return ErrorCreate<E>(std::forward<E>(error)).
createError(c) == ErrorCreate(c)

\* Result(ErrorCreate<U>&& error): has_value_(false),
\* new (&error_) E(std::forward<E>(error.getError())).
ResultFromErrorCreate(ec) ==
    [alive |-> TRUE, has_value_ |-> FALSE, value_ |-> DeadSlot,
     error_ |-> LiveSlot(ErrorCreate_getError(ec))]

\* has_value_(true) in place of has_value_(other.has_value_).
DiscriminantOf_AlwaysValue(other) == TRUE

\* The discriminant a copy/move constructor or assignment takes from `other`.
DiscriminantOf(other) == other.has_value_

\* The member the copy/move constructors and assignments construct in `r`
\* (whose has_value_ is already set) from the same member of `other`.
ConstructFrom(r, other, g) ==
    IF r.has_value_
    THEN [r EXCEPT !.value_ = LiveSlot(ReadSlot(other.value_, g))]
    ELSE [r EXCEPT !.error_ = LiveSlot(ReadSlot(other.error_, g))]

\* Result(const Result& other) and Result(Result&& other): has_value_(other.has_value_),
\* then placement new of the member the discriminant names.
ResultFrom(other, g) ==
    ConstructFrom([alive |-> TRUE, has_value_ |-> DiscriminantOf(other),
                   value_ |-> DeadSlot, error_ |-> DeadSlot], other, g)

\* A move that also ends the lifetime of the source's payload.
MovedFrom_DestroysSource(other, u) ==
    IF other.has_value_
    THEN [other EXCEPT !.value_ = DeadSlot]
    ELSE [other EXCEPT !.error_ = DeadSlot]

\* What T(std::move(other.value_)) / E(std::move(other.error_)) leaves in the
\* source: a moved-from T is live with an unspecified value u; moving the enum
\* E copies it.  The discriminant is not written.
MovedFrom(other, u) ==
    IF other.has_value_ /\ other.value_.live
    THEN [other EXCEPT !.value_ = LiveSlot(u)]
    ELSE other

\* operator= without the self-assignment test.
SameObject_NoCheck(this, other) == FALSE

\* this != &other
SameObject(this, other) == this = other

\* The storage of one Result: the discriminant and the two union members.
ResultStorage ==
    [alive : BOOLEAN, has_value_ : BOOLEAN,
     value_ : [live : BOOLEAN, data : Values],
     error_ : [live : BOOLEAN, data : Status \cup Values]]

\* ------------------------------------------------------------ bookkeeping
\* op: the operation last started.  pc = "done" when it has returned (or
\* thrown, outcome = "threw"); "destructed" and "flag_set" are the two points
\* inside an assignment.  preDst/preSrc are the operands as they were when it
\* began, ctors/dtors count the payload constructor/destructor calls it made,
\* ub says whether it touched storage outside an object's lifetime.
Idle == op.pc = "done"

OpRec(name, dst, src, pc, preDst, preSrc, ctors, dtors, ub, outcome, data, live) ==
    [name |-> name, dst |-> dst, src |-> src, pc |-> pc, preDst |-> preDst,
     preSrc |-> preSrc, ctors |-> ctors, dtors |-> dtors, ub |-> ub,
     outcome |-> outcome, data |-> data, live |-> live]

NoObs == [fn |-> "none", hv |-> FALSE, live |-> FALSE]

\* vobj: the same Results as the -std=c++17 build stores them, in
\* std::variant<T, E> data_: the index of the alternative held ("T", "E", or
\* "valueless" after an assignment that threw) and its value.
NoVariant == [alive |-> FALSE, index |-> "valueless", data |-> 0]

\* thr: what each reader thread is doing in an accessor call on a Result that
\* several threads share (pc = "idle": in no call).
NoCall == [pc |-> "idle", fn |-> "none", hv |-> FALSE, outcome |-> "none", data |-> 0]

Init ==
    /\ obj = [o \in Objs |-> NoResult]
    /\ op = OpRec("init", NoObj, NoObj, "done", NoResult, NoResult, 0, 0, FALSE, "ok", 0, FALSE)
    /\ obs = NoObs
    /\ thr = [t \in Threads |-> NoCall]
    /\ vobj = [o \in Objs |-> NoVariant]

\* obj: the storage of every Result; op, obs, thr, vobj: see above.
TypeOK ==
    /\ obj \in [Objs -> ResultStorage]
    /\ op.name \in {"init", "default_ctor", "value_ctor", "error_ctor", "error_create_ctor",
                    "copy_ctor", "move_ctor", "destroy", "copy_assign", "move_assign",
                    "hasValue", "bool", "getValue", "getError", "write_value", "write_error"}
    /\ op.pc \in {"done", "destructed", "flag_set"}
    /\ op.dst \in Objs \cup {NoObj}
    /\ op.src \in Objs \cup {NoObj}
    /\ op.preDst \in ResultStorage
    /\ op.preSrc \in ResultStorage
    /\ obs \in [fn : {"none", "getValue", "getError"}, hv : BOOLEAN, live : BOOLEAN]
    /\ thr \in [Threads -> [pc : {"idle", "called", "tested", "returned"},
                             fn : {"none", "hasValue", "bool", "getValue", "getError"},
                             hv : BOOLEAN,
                             outcome : {"none", "true", "false", "ok", "no_value", "no_error"},
                             data : Status \cup Values]]
    /\ vobj \in [Objs -> [alive : BOOLEAN, index : {"T", "E", "valueless"},
                          data : Status \cup Values]]

\* Bit patterns a read of slot s can yield: its data, or anything when no
\* object is live there.
Garbage(s) == IF s.live THEN {s.data} ELSE Values

\* The member of `other` a copy/move into `r` reads: the one r's discriminant
\* names.
SourceSlot(r, other) == IF r.has_value_ THEN other.value_ ELSE other.error_

\* Only T's constructors can throw; E is an enum.
MayThrow(r) == r.has_value_

\* --------------------------------------------------------- construction
\* Result<T> r;
DefaultCtor(o) ==
    /\ Idle
    /\ ~obj[o].alive
    /\ obj' = [obj EXCEPT ![o] = ResultDefault]
    /\ op' = OpRec("default_ctor", o, NoObj, "done", NoResult, NoResult, 1, 0, FALSE, "ok", 0, FALSE)
    /\ UNCHANGED obs

\* Result<T> r(v);
ValueCtor(o, v) ==
    /\ Idle
    /\ ~obj[o].alive
    /\ obj' = [obj EXCEPT ![o] = ResultFromValue(v)]
    /\ op' = OpRec("value_ctor", o, NoObj, "done", NoResult, NoResult, 1, 0, FALSE, "ok", v, FALSE)
    /\ UNCHANGED obs

\* Result<T> r(c);  with c a Status rvalue
ErrorCtor(o, c) ==
    /\ Idle
    /\ ~obj[o].alive
    /\ obj' = [obj EXCEPT ![o] = ResultFromError(c)]
    /\ op' = OpRec("error_ctor", o, NoObj, "done", NoResult, NoResult, 1, 0, FALSE, "ok", c, FALSE)
    /\ UNCHANGED obs

\* Result<T> r = createError(c);
ErrorCreateCtor(o, c) ==
    /\ Idle
    /\ ~obj[o].alive
    /\ obj' = [obj EXCEPT ![o] = ResultFromErrorCreate(createError(c))]
    /\ op' = OpRec("error_create_ctor", o, NoObj, "done", NoResult, NoResult, 1, 0, FALSE, "ok", c, FALSE)
    /\ UNCHANGED obs

\* Result<T> o(s);  The payload's copy constructor returns, or (T only) throws
\* and o never comes to exist.
CopyCtor(o, s) ==
    /\ Idle
    /\ o # s
    /\ ~obj[o].alive
    /\ obj[s].alive
    /\ \/ \E g \in Garbage(SourceSlot(obj[s], obj[s])) :
            /\ obj' = [obj EXCEPT ![o] = ResultFrom(obj[s], g)]
            /\ op' = OpRec("copy_ctor", o, s, "done", NoResult, obj[s], 1, 0,
                           ~SourceSlot(obj[s], obj[s]).live, "ok", 0, FALSE)
       \/ /\ MayThrow(obj[s])
          /\ obj' = obj
          /\ op' = OpRec("copy_ctor", o, s, "done", NoResult, obj[s], 0, 0,
                         ~SourceSlot(obj[s], obj[s]).live, "threw", 0, FALSE)
    /\ UNCHANGED obs

\* Result<T> o(std::move(s));
MoveCtor(o, s) ==
    /\ Idle
    /\ o # s
    /\ ~obj[o].alive
    /\ obj[s].alive
    /\ \/ \E g \in Garbage(SourceSlot(obj[s], obj[s])), u \in Values :
            /\ obj' = [obj EXCEPT ![o] = ResultFrom(obj[s], g),
                                  ![s] = MovedFrom(obj[s], u)]
            /\ op' = OpRec("move_ctor", o, s, "done", NoResult, obj[s], 1, 0,
                           ~SourceSlot(obj[s], obj[s]).live, "ok", 0, FALSE)
       \/ /\ MayThrow(obj[s])
          /\ obj' = obj
          /\ op' = OpRec("move_ctor", o, s, "done", NoResult, obj[s], 0, 0,
                         ~SourceSlot(obj[s], obj[s]).live, "threw", 0, FALSE)
    /\ UNCHANGED obs

\* ------------------------------------------------------------ destruction
\* ~Result() { destruct(); }
Destroy(o) ==
    /\ Idle
    /\ obj[o].alive
    /\ obj' = [obj EXCEPT ![o] = NoResult]
    /\ op' = OpRec("destroy", o, NoObj, "done", obj[o], NoResult, 0, 1,
                   destructsDead(obj[o]), "ok", 0, FALSE)
    /\ UNCHANGED obs

\* -------------------------------------------------------------- assignment
AssignKinds == {"copy_assign", "move_assign"}

\* d = s; / d = std::move(s);  up to and including destruct().  A
\* self-assignment returns *this at once.
AssignBegin(k, d, s) ==
    /\ Idle
    /\ obj[d].alive
    /\ obj[s].alive
    /\ IF SameObject(d, s)
       THEN /\ obj' = obj
            /\ op' = OpRec(k, d, s, "done", obj[d], obj[s], 0, 0, FALSE, "ok", 0, FALSE)
       ELSE /\ obj' = [obj EXCEPT ![d] = destruct(obj[d])]
            /\ op' = OpRec(k, d, s, "destructed", obj[d], obj[s], 0, 1,
                           destructsDead(obj[d]), "ok", 0, FALSE)
    /\ obs' = NoObs

\* has_value_ = other.has_value();
AssignSetFlag ==
    /\ op.pc = "destructed"
    /\ obj' = [obj EXCEPT ![op.dst].has_value_ = hasValue(obj[op.src])]
    /\ op' = [op EXCEPT !.pc = "flag_set"]
    /\ UNCHANGED obs

\* The operands after the placement new of an assignment of kind k.
AfterConstruct(k, d, s, g, u) ==
    LET built == [obj EXCEPT ![d] = ConstructFrom(obj[d], obj[s], g)]
    IN  IF k = "move_assign"
        THEN [built EXCEPT ![s] = MovedFrom(built[s], u)]
        ELSE built

\* new (&value_) T(other.value_) / new (&error_) E(other.error_), copying or
\* moving.  T's constructor may throw: the exception leaves operator= with the
\* destination as the two earlier steps left it.
AssignConstruct ==
    /\ op.pc = "flag_set"
    /\ \/ \E g \in Garbage(SourceSlot(obj[op.dst], obj[op.src])),
             u \in (IF op.name = "move_assign" THEN Values ELSE {0}) :
            /\ obj' = AfterConstruct(op.name, op.dst, op.src, g, u)
            /\ op' = [op EXCEPT !.pc = "done", !.ctors = 1,
                                !.ub = op.ub \/ ~SourceSlot(obj[op.dst], obj[op.src]).live]
       \/ /\ MayThrow(obj[op.dst])
          /\ obj' = obj
          /\ op' = [op EXCEPT !.pc = "done", !.outcome = "threw"]
    /\ UNCHANGED obs

\* -------------------------------------------------------------- accessors
\* r.hasValue()
CallHasValue(o) ==
    /\ Idle
    /\ obj[o].alive
    /\ op' = OpRec("hasValue", o, NoObj, "done", obj[o], NoResult, 0, 0, FALSE,
                   IF hasValue(obj[o]) THEN "true" ELSE "false", 0, FALSE)
    /\ UNCHANGED <<obj, obs>>

\* static_cast<bool>(r)
CallBool(o) ==
    /\ Idle
    /\ obj[o].alive
    /\ op' = OpRec("bool", o, NoObj, "done", obj[o], NoResult, 0, 0, FALSE,
                   IF operatorBool(obj[o]) THEN "true" ELSE "false", 0, FALSE)
    /\ UNCHANGED <<obj, obs>>

\* r.getValue()
CallGetValue(o) ==
    /\ Idle
    /\ obj[o].alive
    /\ \E g \in Garbage(obj[o].value_) :
        LET ret == getValue(obj[o], g)
        IN  op' = OpRec("getValue", o, NoObj, "done", obj[o], NoResult, 0, 0,
                        ret.outcome = "ok" /\ ~ret.live, ret.outcome, ret.data, ret.live)
    /\ UNCHANGED <<obj, obs>>

\* r.getError()
CallGetError(o) ==
    /\ Idle
    /\ obj[o].alive
    /\ \E g \in Garbage(obj[o].error_) :
        LET ret == getError(obj[o], g)
        IN  op' = OpRec("getError", o, NoObj, "done", obj[o], NoResult, 0, 0,
                        ret.outcome = "ok" /\ ~ret.live, ret.outcome, ret.data, ret.live)
    /\ UNCHANGED <<obj, obs>>

\* r.getValue() = v;  through T& getValue() & (any write through the mutable
\* reference, a move out of it included).
WriteValue(o, v) ==
    /\ Idle
    /\ obj[o].alive
    /\ LET ret == getValue(obj[o], 0)
       IN  /\ obj' = IF ret.outcome = "ok" /\ ret.live
                     THEN [obj EXCEPT ![o].value_ = LiveSlot(v)]
                     ELSE obj
           /\ op' = OpRec("write_value", o, NoObj, "done", obj[o], NoResult, 0, 0,
                          ret.outcome = "ok" /\ ~ret.live, ret.outcome, v, ret.live)
    /\ UNCHANGED obs

\* r.getError() = c;  through E& getError() &
WriteError(o, c) ==
    /\ Idle
    /\ obj[o].alive
    /\ LET ret == getError(obj[o], 0)
       IN  /\ obj' = IF ret.outcome = "ok" /\ ret.live
                     THEN [obj EXCEPT ![o].error_ = LiveSlot(c)]
                     ELSE obj
           /\ op' = OpRec("write_error", o, NoObj, "done", obj[o], NoResult, 0, 0,
                          ret.outcome = "ok" /\ ~ret.live, ret.outcome, c, ret.live)
    /\ UNCHANGED obs

\* The member the discriminant of r names holds a live object.
NamedLive(r) == IF r.has_value_ THEN r.value_.live ELSE r.error_.live

\* A look at the destination of the assignment in progress, from code that
\* runs inside operator= (T's destructor or copy/move constructor) or from
\* another thread: hasValue(), then the member it names.
Observe(fn) ==
    /\ ~Idle
    /\ obs' = [fn |-> fn, hv |-> hasValue(obj[op.dst]), live |-> NamedLive(obj[op.dst])]
    /\ UNCHANGED <<obj, op>>

Next ==
    \/ \E o \in Objs : DefaultCtor(o) /\ UNCHANGED <<thr, vobj>>
    \/ \E o \in Objs, v \in Values : ValueCtor(o, v) /\ UNCHANGED <<thr, vobj>>
    \/ \E o \in Objs, c \in Status : ErrorCtor(o, c) /\ UNCHANGED <<thr, vobj>>
    \/ \E o \in Objs, c \in Status : ErrorCreateCtor(o, c) /\ UNCHANGED <<thr, vobj>>
    \/ \E o \in Objs, s \in Objs : CopyCtor(o, s) /\ UNCHANGED <<thr, vobj>>
    \/ \E o \in Objs, s \in Objs : MoveCtor(o, s) /\ UNCHANGED <<thr, vobj>>
    \/ \E o \in Objs : Destroy(o) /\ UNCHANGED <<thr, vobj>>
    \/ \E k \in AssignKinds, d \in Objs, s \in Objs : AssignBegin(k, d, s) /\ UNCHANGED <<thr, vobj>>
    \/ AssignSetFlag /\ UNCHANGED <<thr, vobj>>
    \/ AssignConstruct /\ UNCHANGED <<thr, vobj>>
    \/ \E o \in Objs : CallHasValue(o) /\ UNCHANGED <<thr, vobj>>
    \/ \E o \in Objs : CallBool(o) /\ UNCHANGED <<thr, vobj>>
    \/ \E o \in Objs : CallGetValue(o) /\ UNCHANGED <<thr, vobj>>
    \/ \E o \in Objs : CallGetError(o) /\ UNCHANGED <<thr, vobj>>
    \/ \E o \in Objs, v \in Values : WriteValue(o, v) /\ UNCHANGED <<thr, vobj>>
    \/ \E o \in Objs, c \in Status : WriteError(o, c) /\ UNCHANGED <<thr, vobj>>
    \/ \E fn \in {"getValue", "getError"} : Observe(fn) /\ UNCHANGED <<thr, vobj>>

Spec == Init /\ [][Next]_vars

\* ------------------------------------------- readers of one shared Result
\* The Result the reader threads share.
Shared == CHOOSE o \in Objs : \A p \in Objs : o <= p

\* What the shared Result can be when the readers start: the result of any
\* constructor, or what operator= leaves behind when T's constructor throws.
SharedStates ==
    {ResultDefault}
        \cup {ResultFromValue(v) : v \in Values}
        \cup {ResultFromError(c) : c \in Status}
        \cup {ResultFromErrorCreate(createError(c)) : c \in Status}
        \cup {destruct(ResultFromValue(v)) : v \in Values}

InitReaders ==
    /\ \E r \in SharedStates :
          /\ obj = [o \in Objs |-> IF o = Shared THEN r ELSE NoResult]
          /\ op = OpRec("init", Shared, NoObj, "done", r, NoResult, 0, 0, FALSE, "ok", 0, FALSE)
    /\ obs = NoObs
    /\ thr = [t \in Threads |-> NoCall]
    /\ vobj = [o \in Objs |-> NoVariant]

ReaderFns == {"hasValue", "bool", "getValue", "getError"}

\* A thread enters an accessor of the shared Result.
ReaderCall(t, fn) ==
    /\ thr[t].pc \in {"idle", "returned"}
    /\ thr' = [thr EXCEPT ![t] = [pc |-> "called", fn |-> fn, hv |-> FALSE,
                                  outcome |-> "none", data |-> 0]]
    /\ UNCHANGED <<obj, op, obs, vobj>>

\* The hasValue() every accessor starts with.  hasValue() and operator bool
\* return it; getValue()/getError() go on to their if.
ReaderTest(t) ==
    /\ thr[t].pc = "called"
    /\ LET hv == IF thr[t].fn = "bool" THEN operatorBool(obj[Shared])
                                         ELSE hasValue(obj[Shared])
       IN  thr' = [thr EXCEPT ![t] =
                IF thr[t].fn \in {"hasValue", "bool"}
                THEN [@ EXCEPT !.pc = "returned", !.hv = hv,
                               !.outcome = IF hv THEN "true" ELSE "false"]
                ELSE [@ EXCEPT !.pc = "tested", !.hv = hv]]
    /\ UNCHANGED <<obj, op, obs, vobj>>

\* return error_ in place of return value_, and the other way round.
ReturnedMember_Swapped(fn, r) == IF fn = "getValue" THEN r.error_ ELSE r.value_

\* return value_; / return error_;
ReturnedMember(fn, r) == IF fn = "getValue" THEN r.value_ ELSE r.error_

\* The accessor throws on the hasValue() it has read.
ReaderThrows(fn, hv) == IF fn = "getValue" THEN ~hv ELSE hv

\* The rest of getValue()/getError(): throw, or return the member.
ReaderReturn(t) ==
    /\ thr[t].pc = "tested"
    /\ IF ReaderThrows(thr[t].fn, thr[t].hv)
       THEN thr' = [thr EXCEPT ![t] =
                [@ EXCEPT !.pc = "returned",
                          !.outcome = IF thr[t].fn = "getValue" THEN "no_value" ELSE "no_error"]]
       ELSE \E g \in Garbage(ReturnedMember(thr[t].fn, obj[Shared])) :
                thr' = [thr EXCEPT ![t] =
                    [@ EXCEPT !.pc = "returned", !.outcome = "ok",
                              !.data = ReadSlot(ReturnedMember(thr[t].fn, obj[Shared]), g)]]
    /\ UNCHANGED <<obj, op, obs, vobj>>

NextReaders ==
    \/ \E t \in Threads, fn \in ReaderFns : ReaderCall(t, fn)
    \/ \E t \in Threads : ReaderTest(t)
    \/ \E t \in Threads : ReaderReturn(t)

SpecReaders == InitReaders /\ [][NextReaders]_vars

\* --------------------------------------- the std::variant storage (C++17)
\* Result() : data_(T())
VariantDefault == [alive |-> TRUE, index |-> "T", data |-> DefaultT]

\* Result(U&& other) : data_(std::forward<U>(other))
VariantFromValue(v) == [alive |-> TRUE, index |-> "T", data |-> v]

\* Result(E error) : data_(error)
VariantFromError(c) == [alive |-> TRUE, index |-> "E", data |-> c]

\* Result(ErrorCreate<U>&& error) : data_(std::forward<U>(error.getError()))
VariantFromErrorCreate(ec) ==
    [alive |-> TRUE, index |-> "E", data |-> ErrorCreate_getError(ec)]

\* bool hasValue(): std::holds_alternative<T>(data_)
VariantHasValue(r) == r.index = "T"

\* getValue(): throws "No value" unless hasValue(), else std::get<T>(data_).
VariantGetValue(r) ==
    IF ~VariantHasValue(r)
    THEN [outcome |-> "no_value", data |-> 0]
    ELSE [outcome |-> "ok", data |-> r.data]

\* getError(): throws "No error" if hasValue(), else std::get<E>(data_), which
\* throws std::bad_variant_access when data_ is valueless.
VariantGetError(r) ==
    IF VariantHasValue(r)
    THEN [outcome |-> "no_error", data |-> 0]
    ELSE IF r.index = "E"
         THEN [outcome |-> "ok", data |-> r.data]
         ELSE [outcome |-> "bad_variant_access", data |-> 0]

\* The defaulted copy/move constructors: the new variant holds what `other`
\* holds.
VariantFrom(other) == [other EXCEPT !.alive = TRUE]

\* What a move leaves in the source variant: a moved-from T (unspecified
\* value u), an unchanged E.
VariantMovedFrom(other, u) ==
    IF other.index = "T" THEN [other EXCEPT !.data = u] ELSE other

\* The defaulted operator= when constructing or assigning the T throws: with
\* the same alternative on both sides T's own assignment ran and the
\* alternative stays; otherwise the variant has either not been touched yet
\* (the copy is made first) or has destroyed its old alternative and is
\* valueless.
VariantAfterThrow(dst, src) ==
    IF dst.index = src.index
    THEN {dst}
    ELSE {dst, [dst EXCEPT !.index = "valueless", !.data = 0]}

\* The unspecified value the T moved from in this step holds, as the union
\* storage of the same object shows it.
SameMovedFrom(r, u) == (r.has_value_ /\ r.value_.live) => u = r.value_.data

VDefaultCtor(o) == vobj' = [vobj EXCEPT ![o] = VariantDefault]

VValueCtor(o, v) == vobj' = [vobj EXCEPT ![o] = VariantFromValue(v)]

VErrorCtor(o, c) == vobj' = [vobj EXCEPT ![o] = VariantFromError(c)]

VErrorCreateCtor(o, c) == vobj' = [vobj EXCEPT ![o] = VariantFromErrorCreate(createError(c))]

\* Result(const Result&) = default;  T's copy constructor throws in both
\* builds or in neither.
VCopyCtor(o, s) ==
    IF op'.outcome = "threw"
    THEN vobj' = vobj
    ELSE vobj' = [vobj EXCEPT ![o] = VariantFrom(vobj[s])]

\* Result(Result&&) = default;
VMoveCtor(o, s) ==
    IF op'.outcome = "threw"
    THEN vobj' = vobj
    ELSE \E u \in Values :
            /\ SameMovedFrom(obj'[s], u)
            /\ vobj' = [vobj EXCEPT ![o] = VariantFrom(vobj[s]),
                                    ![s] = VariantMovedFrom(vobj[s], u)]

\* ~Result() = default;
VDestroy(o) == vobj' = [vobj EXCEPT ![o] = NoVariant]

\* operator= = default, on entry.  std::variant's assignment has no
\* self-assignment test: d = d assigns the held alternative to itself, which
\* for a move leaves a T with an unspecified value.  Between distinct objects
\* the variant changes when the assignment completes.
VAssignBegin(k, d, s) ==
    IF d = s /\ k = "move_assign"
    THEN \E u \in Values : vobj' = [vobj EXCEPT ![d] = VariantMovedFrom(vobj[d], u)]
    ELSE vobj' = vobj

\* operator= = default, between distinct objects: data_ = other.data_.
VAssignEnd ==
    IF op'.outcome = "threw"
    THEN \E r \in VariantAfterThrow(vobj[op.dst], vobj[op.src]) :
            vobj' = [vobj EXCEPT ![op.dst] = r]
    ELSE IF op.name = "move_assign"
         THEN \E u \in Values :
                /\ SameMovedFrom(obj'[op.src], u)
                /\ vobj' = [vobj EXCEPT ![op.dst] = VariantFrom(vobj[op.src]),
                                        ![op.src] = VariantMovedFrom(vobj[op.src], u)]
         ELSE vobj' = [vobj EXCEPT ![op.dst] = VariantFrom(vobj[op.src])]

\* r.getValue() = v;
VWriteValue(o, v) ==
    vobj' = IF VariantGetValue(vobj[o]).outcome = "ok"
            THEN [vobj EXCEPT ![o].data = v]
            ELSE vobj

\* r.getError() = c;
VWriteError(o, c) ==
    vobj' = IF VariantGetError(vobj[o]).outcome = "ok"
            THEN [vobj EXCEPT ![o].data = c]
            ELSE vobj

\* The two builds run side by side on the same operations.
NextBoth ==
    \/ \E o \in Objs : DefaultCtor(o) /\ VDefaultCtor(o) /\ UNCHANGED thr
    \/ \E o \in Objs, v \in Values : ValueCtor(o, v) /\ VValueCtor(o, v) /\ UNCHANGED thr
    \/ \E o \in Objs, c \in Status : ErrorCtor(o, c) /\ VErrorCtor(o, c) /\ UNCHANGED thr
    \/ \E o \in Objs, c \in Status :
          ErrorCreateCtor(o, c) /\ VErrorCreateCtor(o, c) /\ UNCHANGED thr
    \/ \E o \in Objs, s \in Objs : CopyCtor(o, s) /\ VCopyCtor(o, s) /\ UNCHANGED thr
    \/ \E o \in Objs, s \in Objs : MoveCtor(o, s) /\ VMoveCtor(o, s) /\ UNCHANGED thr
    \/ \E o \in Objs : Destroy(o) /\ VDestroy(o) /\ UNCHANGED thr
    \/ \E k \in AssignKinds, d \in Objs, s \in Objs :
          AssignBegin(k, d, s) /\ VAssignBegin(k, d, s) /\ UNCHANGED thr
    \/ AssignSetFlag /\ UNCHANGED <<thr, vobj>>
    \/ AssignConstruct /\ VAssignEnd /\ UNCHANGED thr
    \/ \E o \in Objs : CallHasValue(o) /\ UNCHANGED <<thr, vobj>>
    \/ \E o \in Objs : CallBool(o) /\ UNCHANGED <<thr, vobj>>
    \/ \E o \in Objs : CallGetValue(o) /\ UNCHANGED <<thr, vobj>>
    \/ \E o \in Objs : CallGetError(o) /\ UNCHANGED <<thr, vobj>>
    \/ \E o \in Objs, v \in Values : WriteValue(o, v) /\ VWriteValue(o, v) /\ UNCHANGED thr
    \/ \E o \in Objs, c \in Status : WriteError(o, c) /\ VWriteError(o, c) /\ UNCHANGED thr

SpecBoth == Init /\ [][NextBoth]_vars

\* ================================================================== claims
\* r holds exactly one live alternative and the discriminant names it.
Holds(r) ==
    /\ r.alive
    /\ r.has_value_ => (r.value_.live /\ ~r.error_.live)
    /\ ~r.has_value_ => (r.error_.live /\ ~r.value_.live)

\* The payload of a Result that Holds: <<discriminant, data of the live member>>.
Payload(r) == <<r.has_value_, IF r.has_value_ THEN r.value_.data ELSE r.error_.data>>

\* C1: between operations, every constructed and not yet destroyed Result
\* holds exactly one live alternative (the success payload or the error
\* payload, never both, never neither) and its discriminant names that one.
C1_ExactlyOneAlternative ==
    Idle => \A o \in Objs : obj[o].alive => Holds(obj[o])

\* C2: a getValue() call returns the live success payload when hasValue() is
\* true and fails with "No value" otherwise; a getError() call returns the
\* live error payload when hasValue() is false and fails with "No error"
\* otherwise; a call that returns normally never returns a payload that is not
\* live.
C2_FailFastAccessors ==
    /\ op.name = "getValue" =>
          IF hasValue(op.preDst)
          THEN op.outcome = "ok" /\ op.live /\ op.data = op.preDst.value_.data
          ELSE op.outcome = "no_value"
    /\ op.name = "getError" =>
          IF hasValue(op.preDst)
          THEN op.outcome = "no_error"
          ELSE op.outcome = "ok" /\ op.live /\ op.data = op.preDst.error_.data

\* C3: Result<T>(v) holds the success alternative: hasValue() is true and
\* getValue() returns v, for every value v.
C3_ValueConstructor ==
    op.name = "value_ctor" =>
        /\ hasValue(obj[op.dst])
        /\ getValue(obj[op.dst], 0) = [outcome |-> "ok", data |-> op.data, live |-> TRUE]
        /\ Holds(obj[op.dst])

C3_Witness ==
    /\ op.name = "value_ctor"
    /\ op.data = MaxVal
    /\ getValue(obj[op.dst], 0).data = MaxVal

\* C4: Result<T>(c) holds the error alternative for every code c, OK
\* included: hasValue() is false and getError() returns c; and
\* Result<T>(createError(c)) answers hasValue(), getError() and getValue()
\* exactly as Result<T>(c) does.
C4_ErrorConstructors ==
    /\ op.name \in {"error_ctor", "error_create_ctor"} =>
          /\ ~hasValue(obj[op.dst])
          /\ getError(obj[op.dst], 0) = [outcome |-> "ok", data |-> op.data, live |-> TRUE]
          /\ getValue(obj[op.dst], 0).outcome = "no_value"
          /\ Holds(obj[op.dst])
    /\ op.name = "error_create_ctor" =>
          /\ hasValue(obj[op.dst]) = hasValue(ResultFromError(op.data))
          /\ getError(obj[op.dst], 0) = getError(ResultFromError(op.data), 0)
          /\ getValue(obj[op.dst], 0) = getValue(ResultFromError(op.data), 0)

C4_Witness ==
    /\ op.name = "error_create_ctor"
    /\ op.data = ERROR
    /\ getError(obj[op.dst], 0).data = ERROR

\* C10: Result<T>() holds the success alternative: hasValue() is true,
\* getValue() returns a default-constructed T (0) and getError() fails with
\* "No error".
C10_DefaultConstructor ==
    op.name = "default_ctor" =>
        /\ hasValue(obj[op.dst])
        /\ getValue(obj[op.dst], MaxVal) = [outcome |-> "ok", data |-> DefaultT, live |-> TRUE]
        /\ DefaultT = 0
        /\ getError(obj[op.dst], 0).outcome = "no_error"

C10_Witness ==
    /\ op.name = "default_ctor"
    /\ obj[op.dst].alive
    /\ obj[op.dst].value_.live

\* Neither member of r's union holds a live object.
Empty(r) == ~r.value_.live /\ ~r.error_.live

C6_MoveLaw ==
    (op.name = "move_ctor" /\ op.outcome = "ok" /\ Holds(op.preSrc)) =>
        /\ Holds(obj[op.dst])
        /\ Payload(obj[op.dst]) = Payload(op.preSrc)
        /\ hasValue(obj[op.src]) = hasValue(op.preSrc)
        /\ Holds(obj[op.src])
        /\ ~destructsDead(obj[op.src])
        /\ Empty(destruct(obj[op.src]))

C6_Witness ==
    /\ op.name = "move_ctor"
    /\ op.outcome = "ok"
    /\ Holds(op.preSrc)
    /\ hasValue(op.preSrc)
    /\ op.preSrc.value_.data = MaxVal
    /\ obj[op.src].value_.data # MaxVal

\* C7: an assignment a = b between distinct Results that each hold a value or
\* an error first destroys a's live alternative (a is empty, its discriminant
\* still the old one), then sets a's discriminant to b's (a still empty), then
\* constructs the new alternative; when it completes, a holds b's
\* pre-assignment discriminant and payload, whichever alternatives a and b
\* held.
C7_AssignmentOrder ==
    (/\ op.name \in AssignKinds
     /\ op.dst # op.src
     /\ Holds(op.preDst)
     /\ Holds(op.preSrc)) =>
        /\ op.pc = "destructed" =>
              /\ Empty(obj[op.dst])
              /\ obj[op.dst].has_value_ = op.preDst.has_value_
              /\ op.dtors = 1 /\ op.ctors = 0
        /\ op.pc = "flag_set" =>
              /\ Empty(obj[op.dst])
              /\ obj[op.dst].has_value_ = op.preSrc.has_value_
              /\ op.dtors = 1 /\ op.ctors = 0
        /\ (op.pc = "done" /\ op.outcome = "ok") =>
              /\ Holds(obj[op.dst])
              /\ Payload(obj[op.dst]) = Payload(op.preSrc)
              /\ op.dtors = 1 /\ op.ctors = 1

C7_Witness ==
    /\ op.name \in AssignKinds
    /\ op.dst # op.src
    /\ Holds(op.preDst)
    /\ Holds(op.preSrc)
    /\ hasValue(op.preDst)
    /\ ~hasValue(op.preSrc)
    /\ op.pc = "done"
    /\ op.outcome = "ok"
    /\ ~hasValue(obj[op.dst])

\* C8: nothing ever sees the destination of an assignment between distinct
\* Results with its old alternative destroyed and its new one not yet
\* constructed: no look at it while the assignment runs, and not the caller
\* after the construction of the new payload has thrown.
C8_NeverObservedEmpty ==
    /\ obs.fn # "none" => obs.live
    /\ (/\ op.name \in AssignKinds
        /\ op.pc = "done"
        /\ op.outcome = "threw"
        /\ Holds(op.preDst)
        /\ Holds(op.preSrc)) => Holds(obj[op.dst])

C11_HasValueIffSuccessLive ==
    /\ op.name = "hasValue" =>
          /\ op.outcome \in {"true", "false"}
          /\ (op.outcome = "true") = op.preDst.value_.live
    /\ op.name = "bool" =>
          /\ op.outcome \in {"true", "false"}
          /\ (op.outcome = "true") = hasValue(op.preDst)
          /\ (op.outcome = "true") = op.preDst.value_.live

\* C13: every payload that is constructed is destroyed exactly once.  A
\* destructor call (in ~Result or in operator=) always finds a live object in
\* the member it destroys and leaves both members without one; the placement
\* new of an assignment always finds both members without a live object; no
\* operation reads a member outside its lifetime; and a Result that is not
\* constructed holds no live payload.
C13_ConstructedDestroyedOnce ==
    /\ op.name = "destroy" =>
          /\ ~destructsDead(op.preDst)
          /\ Empty(destruct(op.preDst))
          /\ op.dtors = 1
    /\ (op.name \in AssignKinds /\ op.dst # op.src) =>
          /\ ~destructsDead(op.preDst)
          /\ op.pc \in {"destructed", "flag_set"} => Empty(obj[op.dst])
          /\ (op.pc = "done" /\ op.outcome = "ok") => (op.dtors = 1 /\ op.ctors = 1)
    /\ ~op.ub
    /\ \A o \in Objs : ~obj[o].alive => Empty(obj[o])
    /\ \A o \in Objs : ~(obj[o].value_.live /\ obj[o].error_.live)

\* What an accessor call on r returns when nothing else runs: the outcomes
\* <<outcome, data>> of the whole call.
Alone(fn, r) ==
    CASE fn = "hasValue" -> {<<IF hasValue(r) THEN "true" ELSE "false", 0>>}
      [] fn = "bool" -> {<<IF operatorBool(r) THEN "true" ELSE "false", 0>>}
      [] fn = "getValue" ->
            {<<getValue(r, g).outcome, getValue(r, g).data>> : g \in Garbage(r.value_)}
      [] fn = "getError" ->
            {<<getError(r, g).outcome, getError(r, g).data>> : g \in Garbage(r.error_)}

\* C12: however the accessor calls of several threads on a Result that no
\* thread mutates interleave, the Result stays as it was, and every call that
\* has returned or thrown has the outcome the same call has when run alone.
C12_ConcurrentReads ==
    /\ obj[Shared] = op.preDst
    /\ \A t \in Threads :
          thr[t].pc = "returned" =>
              <<thr[t].outcome, thr[t].data>> \in Alone(thr[t].fn, op.preDst)

\* Two calls are in flight at once, one about to throw, one returned.
C12_Witness ==
    \E t, u \in Threads :
        /\ t # u
        /\ thr[t].pc = "returned"
        /\ thr[t].fn = "getError"
        /\ thr[t].outcome = "ok"
        /\ thr[t].data = ERROR
        /\ thr[u].pc = "tested"
        /\ thr[u].fn = "getValue"
        /\ Holds(obj[Shared])

\* C14: run side by side on the same constructions, copies, moves,
\* assignments (self-assignment included) and accessor calls, the union build
\* and the std::variant build agree, between operations and for every Result,
\* on hasValue(), on whether getValue() and getError() return or fail, and
\* on the payload they return.
C14_BuildsAgree ==
    Idle => \A o \in Objs :
        /\ obj[o].alive = vobj[o].alive
        /\ obj[o].alive =>
              /\ hasValue(obj[o]) = VariantHasValue(vobj[o])
              /\ \A g \in Garbage(obj[o].value_) :
                    /\ getValue(obj[o], g).outcome = VariantGetValue(vobj[o]).outcome
                    /\ getValue(obj[o], g).data = VariantGetValue(vobj[o]).data
              /\ \A g \in Garbage(obj[o].error_) :
                    /\ getError(obj[o], g).outcome = VariantGetError(vobj[o]).outcome
                    /\ getError(obj[o], g).data = VariantGetError(vobj[o]).data

====
